---- MODULE Spec2Model ----
(***************************************************************************)
(* A model of pazi's PathFrecency engine (src/frecent_paths.rs): a         *)
(* frecency store of directory paths with existence pruning, a dirty flag, *)
(* persistence through a temporary file and a rename, and the ranking      *)
(* pipeline of directory_matches.                                          *)
(*                                                                         *)
(* Strings are sequences of one-character strings, so that substrings,     *)
(* case folding and path components are computed and not assumed.          *)
(* Real numbers are integers in tenths: a match strength and a normalized  *)
(* frecency lie in 0..Unit, a blended score in 0..Unit*Unit.               *)
(***************************************************************************)
EXTENDS Integers, Sequences, FiniteSets, TLC

VARIABLES
    phase,      \* "unloaded" (no engine), "loaded", "panicked" (load unwrapped an error)
    path,       \* PathFrecency.path: the location of the database file
    pid,        \* the process id of the process owning the engine
    frecency,   \* PathFrecency.frecency: the store [frecency: key -> raw, max_size]
    dirty,      \* PathFrecency.dirty
    savepc,     \* position inside save_to_disk: "idle", "serialize", "rename"
    files,      \* the regular files on disk: file path -> sequence of tokens
    dirs,       \* the directories on disk (the root is always one)
    addRet,     \* the last return value of maybe_add_relative_to
    saveRet,    \* the last return value of save_to_disk
    items,      \* the last return value of items_with_frecency / directory_matches
    args,       \* the arguments of the last call
    pruned,     \* history: the keys the last items_with_frecency / directory_matches removed
    lastOp,     \* the name of the function that made the engine's last step
    mutated,    \* history: a visit, insert or prune happened since the last successful save or load
    oldFile,    \* history: the content of the database file when save_to_disk was entered
    savedStore, \* history: the store that the last successful save_to_disk serialized
    failedStep, \* history: the step at which the last save_to_disk failed, or "none"
    peer,       \* a second process with an engine of its own on the same location
    lastRename  \* history: the process id whose rename ran last, 0 when none did

vars == <<phase, path, pid, frecency, dirty, savepc, files, dirs, addRet, saveRet,
          items, args, pruned, lastOp, mutated, oldFile, savedStore, failedStep,
          peer, lastRename>>

----------------------------------------------------------------------------
(* Bounds *)

\* the largest raw frecency an entry reaches (visits beyond it are not taken)
MaxRaw == 2

----------------------------------------------------------------------------
(* Strings and paths *)

Sep == "/"
\* a byte that is not valid UTF-8: to_str() of a path holding it is None
BadByte == "\\xff"

DirA      == <<"/", "a">>
DirUpperA == <<"/", "A">>
DirAB     == <<"/", "a", "/", "b">>
DirBad    == <<"/", BadByte>>
RootDir   == <<"/">>

\* the directories that may exist on disk besides the root
AllDirs == {DirA, DirUpperA, DirAB, DirBad}

\* the locations an engine is loaded from: a file in the root directory, and
\* the root directory itself (a location without a file-name component)
DbPath == <<"/", "d">>
Locations == {DbPath, RootDir}

\* Option<T> is a set with at most one element
None == {}
Some(x) == {x}
Unwrap(o) == CHOOSE x \in o : TRUE

RECURSIVE SplitOn(_, _)
\* the pieces of s between occurrences of c (empty pieces included)
SplitOn(s, c) ==
    IF \A i \in 1..Len(s) : s[i] # c THEN <<s>>
    ELSE LET i == CHOOSE j \in 1..Len(s) : s[j] = c /\ \A k \in 1..(j-1) : s[k] # c
         IN  <<SubSeq(s, 1, i-1)>> \o SplitOn(SubSeq(s, i+1, Len(s)), c)

\* Path::components(), without the root: the non-empty, non-"." pieces
Components(p) == SelectSeq(SplitOn(p, Sep), LAMBDA c : c # <<>> /\ c # <<".">>)

IsAbsolute(p) == Len(p) > 0 /\ p[1] = Sep

RECURSIVE JoinComponents(_)
JoinComponents(cs) ==
    IF cs = <<>> THEN <<>>
    ELSE IF Len(cs) = 1 THEN cs[1]
    ELSE cs[1] \o <<Sep>> \o JoinComponents(Tail(cs))

\* Path::file_name(): the last component, None for the root, the empty
\* path and a path ending in ".."
FileName(p) ==
    LET cs == Components(p)
    IN  IF cs = <<>> \/ cs[Len(cs)] = <<".", ".">> THEN None ELSE Some(cs[Len(cs)])

\* Path::parent(): the path without its last component, None for the root
\* and the empty path
Parent(p) ==
    LET cs == Components(p)
    IN  IF cs = <<>> THEN None
        ELSE Some((IF IsAbsolute(p) THEN <<Sep>> ELSE <<>>)
                  \o JoinComponents(SubSeq(cs, 1, Len(cs) - 1)))

\* PathBuf::push / Path::join: an absolute argument replaces the base
Join(base, rel) ==
    IF IsAbsolute(rel) THEN rel
    ELSE IF base = <<>> \/ base[Len(base)] = Sep THEN base \o rel
    ELSE base \o <<Sep>> \o rel

\* Path::to_str(): None when the path is not valid Unicode
ToStr(p) == IF \E i \in 1..Len(p) : p[i] = BadByte THEN None ELSE Some(p)

\* Path::is_dir() against the directories on disk
IsDir(p, ds) == p \in ds \cup {RootDir}

\* a temporary path that is the real path
TmpfileIsReal(p, mypid) == p

\* line 85-89: the temporary sibling .<file-name>.<pid> in the parent directory
TmpfilePath(p, mypid) ==
    Join(Unwrap(Parent(p)), <<".">> \o Unwrap(FileName(p)) \o <<".", ToString(mypid)>>)

----------------------------------------------------------------------------
(* The frecency store (frecency.rs is not among the sources: it is modelled *)
(* from the interface the specification gives)                              *)

Capacity == 1000

EmptyMap == [k \in {} |-> 0]

FrecencyNew(cap) == [frecency |-> EmptyMap, max_size |-> cap]

\* the value of an engine that does not exist
NoStore == [frecency |-> EmptyMap, max_size |-> 0]

\* the stored keys
Keys(s) == IF s.frecency = EmptyMap THEN {} ELSE DOMAIN s.frecency

\* capacity-bounded retention: the least valuable entry is evicted
Trim(s) ==
    IF Cardinality(Keys(s)) <= s.max_size THEN s
    ELSE LET low == CHOOSE k \in Keys(s) : \A j \in Keys(s) : s.frecency[k] <= s.frecency[j]
         IN  [s EXCEPT !.frecency = [k \in Keys(s) \ {low} |-> s.frecency[k]]]

FrecencyVisit(s, key) ==
    Trim([s EXCEPT !.frecency =
            IF key \in Keys(s) THEN [@ EXCEPT ![key] = @ + 1]
            ELSE [k \in Keys(s) \cup {key} |-> IF k = key THEN 1 ELSE @[k]]])

\* an insert is treated as a fresh visit
FrecencyInsert(s, key) == FrecencyVisit(s, key)

\* retain(pred): keeps the keys in keep
FrecencyRetain(s, keep) == [s EXCEPT !.frecency = [k \in Keys(s) \cap keep |-> s.frecency[k]]]

\* retain's result: whether any entry was removed
RetainChanged(s, keep) == Keys(s) \cap keep # Keys(s)

----------------------------------------------------------------------------
(* The on-disk snapshot: the store as the sequence of tokens the codec      *)
(* writes, one write per token (the codec and the store's derive are        *)
(* outside the sources: the layout is the specification's "mapping of path  *)
(* string -> accounting state, bounded to the store's capacity")            *)

Tok(t, k, v) == [t |-> t, k |-> k, v |-> v]

\* what reading a path that is no file gives: never a prefix of a snapshot
NoFile == <<Tok("absent", <<>>, 0)>>

\* the paths that are regular files
Files(fs) == IF fs = EmptyMap THEN {} ELSE DOMAIN fs

FileAt(fs, f) == IF f \in Files(fs) THEN fs[f] ELSE NoFile

\* the keys of the entries written so far
Written(bytes) == {bytes[i].k : i \in {j \in 1..Len(bytes) : bytes[j].t = "ent"}}

\* a snapshot is: map header with the entry count, the entries, max_size
IsComplete(bytes) == Len(bytes) > 0 /\ bytes[Len(bytes)].t = "cap"

\* the tokens the serializer may write next after bytes (the map is a hash
\* map: its entries are written in any order)
NextTokens(s, bytes) ==
    IF bytes = <<>> THEN {Tok("hdr", <<>>, Cardinality(Keys(s)))}
    ELSE IF Written(bytes) # Keys(s)
         THEN {Tok("ent", k, s.frecency[k]) : k \in Keys(s) \ Written(bytes)}
         ELSE {Tok("cap", <<>>, s.max_size)}

\* Deserialize: None when the bytes are not a whole snapshot
Deserialize(bytes) ==
    LET n == Len(bytes) IN
    IF /\ n >= 2
       /\ bytes[1].t = "hdr"
       /\ bytes[1].v = n - 2
       /\ bytes[n].t = "cap"
       /\ \A i \in 2..(n-1) : bytes[i].t = "ent"
    THEN Some([frecency |-> [k \in Written(bytes) |->
                              LET i == CHOOSE j \in 2..(n-1) : bytes[j].k = k /\
                                            \A l \in (j+1)..(n-1) : bytes[l].k # k
                              IN  bytes[i].v],
               max_size |-> bytes[n].v])
    ELSE None

----------------------------------------------------------------------------
(* The filesystem calls of save_to_disk *)

\* a create that opens an existing file as it is
CreatedKeeping(fs, p) ==
    [f \in Files(fs) \cup {p} |-> IF f \in Files(fs) THEN fs[f] ELSE <<>>]

\* line 91: File::create: the file exists and is empty afterwards
Created(fs, p) == [f \in Files(fs) \cup {p} |-> IF f = p THEN <<>> ELSE fs[f]]

\* a rename that leaves a file that is already at the destination
RenamedKeepingExisting(fs, from, to) ==
    [f \in (Files(fs) \ {from}) \cup {to} |->
        IF f = to /\ to \notin Files(fs) THEN fs[from] ELSE fs[f]]

\* a rename that copies
RenamedLeavingSource(fs, from, to) ==
    [f \in Files(fs) \cup {to} |-> IF f = to THEN fs[from] ELSE fs[f]]

\* line 97: fs::rename: the destination is replaced by the source in one
\* step, and the source's name is gone
Renamed(fs, from, to) ==
    [f \in (Files(fs) \ {from}) \cup {to} |-> IF f = to THEN fs[from] ELSE fs[f]]

----------------------------------------------------------------------------
(* Return values *)

Ok == <<"Ok">>
Err(msg) == <<"Err", msg>>
NoRet == <<>>

PidError       == Err("could not get pid")
FileNameError  == Err("path did not have file component")
ParentError    == Err("unable to get parent")
CreateError    == Err("could not create tempfile")
\* the message of the step before
SerializeErrorAsCreate == Err("could not create tempfile")
SerializeError == Err("could not create tmpfile")
\* the rename error carries the operating system's error
OsErrors == {"EACCES"}
RenameError(e) == <<"Err", "could not atomically rename: ", e>>

NoArgs == <<>>

\* what a call leaves behind: its name, its arguments and its return value
Returns(op, arg, add, save, its) ==
    /\ lastOp' = op
    /\ args' = arg
    /\ addRet' = add
    /\ saveRet' = save
    /\ items' = its

\* outside save_to_disk nothing is remembered of the last call of it
NotSaving ==
    /\ oldFile' = NoFile
    /\ failedStep' = "none"

\* outside the two queries nothing is pruned
NotPruning == pruned' = {}

----------------------------------------------------------------------------
(* The second process: its engine, and the file handle its load holds      *)

\* no second process yet
NoPeer ==
    [phase |-> "unloaded", pid |-> 0, frecency |-> NoStore, dirty |-> FALSE,
     savepc |-> "idle", saveRet |-> NoRet, failed |-> "none", saved |-> NoStore,
     handle |-> "closed", inode |-> <<>>, len |-> 0, read |-> NoFile,
     atOpen |-> NoFile, op |-> "none"]

\* a rename over the file a handle is open on leaves the handle on the file
\* that was there: the handle keeps the replaced file's content
Detached(p, fs, to) ==
    IF p.handle = "linked"
    THEN [p EXCEPT !.handle = "detached", !.inode = FileAt(fs, to)]
    ELSE p

\* what a read through the handle of p gives
HandleBytes(p, fs, at) == IF p.handle = "linked" THEN FileAt(fs, at) ELSE p.inode

----------------------------------------------------------------------------
(* Initial state: no process yet, no database file, none of the directories *)

Init ==
    /\ phase = "unloaded"
    /\ path \in Locations
    /\ pid = 0
    /\ frecency = NoStore
    /\ dirty = FALSE
    /\ savepc = "idle"
    /\ files = EmptyMap
    /\ dirs = {}
    /\ addRet = FALSE
    /\ saveRet = NoRet
    /\ items = <<>>
    /\ args = NoArgs
    /\ pruned = {}
    /\ lastOp = "init"
    /\ mutated = FALSE
    /\ oldFile = NoFile
    /\ savedStore = NoStore
    /\ failedStep = "none"
    /\ peer = NoPeer
    /\ lastRename = 0

----------------------------------------------------------------------------
(* The filesystem changes under the engine *)

MkDir(d) ==
    /\ d \notin dirs
    /\ IsDir(Unwrap(Parent(d)), dirs)
    /\ dirs' = dirs \cup {d}
    /\ Returns("fs", NoArgs, FALSE, saveRet, <<>>)
    /\ NotPruning
    /\ UNCHANGED <<phase, path, pid, frecency, dirty, savepc, files, mutated, oldFile,
                   savedStore, failedStep, peer, lastRename>>

\* removing a directory removes what is inside it
RmDir(d) ==
    /\ d \in dirs
    /\ dirs' = {e \in dirs : e # d /\ Parent(e) # Some(d)}
    /\ Returns("fs", NoArgs, FALSE, saveRet, <<>>)
    /\ NotPruning
    /\ UNCHANGED <<phase, path, pid, frecency, dirty, savepc, files, mutated, oldFile,
                   savedStore, failedStep, peer, lastRename>>

----------------------------------------------------------------------------
(* PathFrecency *)

\* an open that truncates
OpenedTruncated(fs, p) == <<>>

\* lines 24-30: what the file opened with read, write and create holds
Opened(fs, p) == IF p \in Files(fs) THEN fs[p] ELSE <<>>

\* an engine that is born dirty
InitiallyDirty == TRUE

\* line 43: dirty: false
InitialDirty == FALSE

\* lines 23-45: load; open(read, write, create) fails on a directory and the
\* unwrap panics, as does the unwrap of a failed deserialization
Load(mypid) ==
    /\ phase = "unloaded"
    /\ pid' = mypid
    /\ LET opened == ~IsDir(path, dirs)
           bytes == Opened(files, path)
           de == Deserialize(bytes)
       IN  /\ files' = IF opened /\ path \notin Files(files)
                       THEN [f \in Files(files) \cup {path} |->
                               IF f = path THEN <<>> ELSE files[f]]
                       ELSE files
           /\ IF ~opened \/ (Len(bytes) > 0 /\ de = None)
              THEN /\ phase' = "panicked"
                   /\ frecency' = NoStore
              ELSE /\ phase' = "loaded"
                   /\ frecency' = IF Len(bytes) > 0 THEN Unwrap(de)
                                  ELSE FrecencyNew(Capacity)
    /\ dirty' = InitialDirty
    /\ mutated' = FALSE
    /\ Returns("load", NoArgs, FALSE, NoRet, <<>>)
    /\ NotPruning
    /\ NotSaving
    /\ UNCHANGED <<path, savepc, dirs, savedStore, peer, lastRename>>

\* the owning process ends: the engine is dropped, nothing is flushed
Exit ==
    /\ phase = "loaded"
    /\ savepc = "idle"
    /\ phase' = "unloaded"
    /\ pid' = 0
    /\ frecency' = NoStore
    /\ dirty' = FALSE
    /\ mutated' = FALSE
    /\ Returns("exit", NoArgs, FALSE, NoRet, <<>>)
    /\ NotPruning
    /\ NotSaving
    /\ UNCHANGED <<path, savepc, files, dirs, savedStore, peer, lastRename>>

Idle == phase = "loaded" /\ savepc = "idle"

\* the raw frecency of key stays within the model's bound after one more visit
CanVisit(s, key) == IF key \in Keys(s) THEN s.frecency[key] < MaxRaw ELSE TRUE

\* lines 47-50
Visit(dir) ==
    /\ Idle
    /\ CanVisit(frecency, dir)
    /\ frecency' = FrecencyVisit(frecency, dir)
    /\ dirty' = TRUE
    /\ mutated' = TRUE
    /\ Returns("visit", NoArgs, FALSE, NoRet, <<>>)
    /\ NotPruning
    /\ NotSaving
    /\ UNCHANGED <<phase, path, pid, savepc, files, dirs, savedStore, peer, lastRename>>

\* a test that forgets is_dir()
AddableIfRepresentable(p, ds) == ToStr(p) # None

\* lines 55-64: the path is a directory and to_str() gives its string
Addable(p, ds) == IsDir(p, ds) /\ ToStr(p) # None

\* lines 52-68
MaybeAddRelativeTo(base, relative) ==
    LET base_path == Join(base, relative)
        str == ToStr(base_path)
        call == [base |-> base, relative |-> relative]
    IN  /\ Idle
        /\ NotPruning
        /\ IF Addable(base_path, dirs)
           THEN /\ CanVisit(frecency, Unwrap(str))
                /\ frecency' = FrecencyInsert(frecency, Unwrap(str))
                /\ dirty' = TRUE
                /\ mutated' = TRUE
                /\ Returns("maybe_add_relative_to", call, TRUE, NoRet, <<>>)
           ELSE /\ Returns("maybe_add_relative_to", call, FALSE, NoRet, <<>>)
                /\ UNCHANGED <<frecency, dirty, mutated>>
        /\ NotSaving
        /\ UNCHANGED <<phase, path, pid, savepc, files, dirs, savedStore, peer,
                       lastRename>>

----------------------------------------------------------------------------
(* Scores *)

\* line 175: v * 0.8 + frecency * 0.2, in tenths
MatchWeight == 8
FrecWeight == 2
\* the real number 1
Unit == MatchWeight + FrecWeight

Max(S) == CHOOSE x \in S : \A y \in S : y <= x

\* normalized_frecency(): every raw frecency rescaled onto 0..Unit, the
\* common range being that of the most valuable entry
NormalizedFrecency(s) ==
    IF Keys(s) = {} THEN EmptyMap
    ELSE LET top == Max({s.frecency[k] : k \in Keys(s)})
         IN  [k \in Keys(s) |-> (s.frecency[k] * Unit) \div top]

\* a sort that puts the greatest score first
DescendingOrders(pairs) ==
    LET n == Cardinality(pairs)
    IN  {sq \in [1..n -> pairs] :
            /\ \A i, j \in 1..n : i # j => sq[i] # sq[j]
            /\ \A i \in 1..(n-1) : sq[i][2] >= sq[i+1][2]}

\* the orders a stable sort by score may leave a collection of (key, score)
\* pairs in, when the order it started from is not fixed
AscendingOrders(pairs) ==
    LET n == Cardinality(pairs)
    IN  {sq \in [1..n -> pairs] :
            /\ \A i, j \in 1..n : i # j => sq[i] # sq[j]
            /\ \A i \in 1..(n-1) : sq[i][2] <= sq[i+1][2]}

\* a retain that keeps everything
PrunedNothing(s, ds) == s

\* lines 102-109: the store after retain(is_dir)
Pruned(s, ds) == FrecencyRetain(s, {k \in Keys(s) : IsDir(k, ds)})

\* a query that always marks the engine
DirtyAfterQuery(isDirty, changed) == TRUE

\* lines 102-111: dirty is set when retain removed an entry
DirtyAfterPrune(isDirty, changed) == isDirty \/ changed

\* lines 112-120: the scored items, sorted ascending by score
SortedItems(s) ==
    LET nf == NormalizedFrecency(s)
    IN  AscendingOrders({<<k, nf[k]>> : k \in Keys(s)})

\* lines 101-121
ItemsWithFrecency ==
    /\ Idle
    /\ LET changed == RetainChanged(frecency, {k \in Keys(frecency) : IsDir(k, dirs)})
       IN  /\ frecency' = Pruned(frecency, dirs)
           /\ dirty' = DirtyAfterPrune(dirty, changed)
           /\ mutated' = (mutated \/ changed)
    /\ pruned' = Keys(frecency) \ Keys(frecency')
    /\ \E its \in SortedItems(frecency') :
          Returns("items_with_frecency", NoArgs, FALSE, NoRet, its)
    /\ NotSaving
    /\ UNCHANGED <<phase, path, pid, savepc, files, dirs, savedStore, peer, lastRename>>

----------------------------------------------------------------------------
(* The matchers (matcher.rs is not among the sources: when a strategy       *)
(* matches follows from its name, and its strength is any value of the      *)
(* interface's range, the exact match being 1)                              *)

Lower(c) == IF c = "A" THEN "a" ELSE IF c = "B" THEN "b" ELSE c
ToLowercase(str) == [i \in 1..Len(str) |-> Lower(str[i])]

Contains(input, search) ==
    \E i \in 1..(Len(input) - Len(search) + 1) :
        SubSeq(input, i, i + Len(search) - 1) = search

\* lines 150-167: the strategies, in the order of the list
Matchers == <<"em", "ci_em", "pc_em", "pc_sm", "pc_ci_em", "sm", "ci_sm", "pc_ci_sm">>

RECURSIVE Hit(_, _, _)
\* whether matcher m matches input against search
Hit(m, input, search) ==
    CASE m = "em" -> input = search
      [] m = "sm" -> Contains(input, search)
      [] m = "ci_em" -> Hit("em", ToLowercase(input), ToLowercase(search))
      [] m = "ci_sm" -> Hit("sm", ToLowercase(input), ToLowercase(search))
      [] m = "pc_em" -> \E i \in DOMAIN Components(input) : Hit("em", Components(input)[i], search)
      [] m = "pc_sm" -> \E i \in DOMAIN Components(input) : Hit("sm", Components(input)[i], search)
      [] m = "pc_ci_em" -> \E i \in DOMAIN Components(input) : Hit("ci_em", Components(input)[i], search)
      [] m = "pc_ci_sm" -> \E i \in DOMAIN Components(input) : Hit("ci_sm", Components(input)[i], search)

\* Matcher::matches: Some(strength) or None; st gives the strength of every
\* strategy but the exact one
Matches(st, m, input, search) ==
    IF Hit(m, input, search) THEN Some(IF m = "em" THEN Unit ELSE st[m]) ELSE None

\* the strength tables: falling along the list, rising along it, every
\* strategy as strong as the exact one, every other strategy worthless
StrengthTables ==
    { [m \in {Matchers[i] : i \in 2..Len(Matchers)} |->
          LET i == CHOOSE j \in 2..Len(Matchers) : Matchers[j] = m
          IN  CASE t = "falling" -> Unit + 1 - i
                [] t = "rising" -> i
                [] t = "full" -> Unit
                [] t = "none" -> 0]
      : t \in {"falling", "rising", "full", "none"} }

----------------------------------------------------------------------------
(* directory_matches *)

\* line 175
Blend(v, f) == v * MatchWeight + f * FrecWeight

RECURSIVE MatchedOneUnfiltered(_, _, _, _, _)
\* a map instead of a filter_map: no match counts as strength 0
MatchedOneUnfiltered(ms, i, item, filter, st) ==
    IF i > Len(ms) THEN <<>>
    ELSE LET v == Matches(st, ms[i], item[1], filter)
         IN  << <<item[1], Blend(IF v = None THEN 0 ELSE Unwrap(v), item[2])>> >>
             \o MatchedOneUnfiltered(ms, i + 1, item, filter, st)

RECURSIVE MatchedOne(_, _, _, _, _)
\* lines 172-177: the matches of one item, from matcher i on, in list order
MatchedOne(ms, i, item, filter, st) ==
    IF i > Len(ms) THEN <<>>
    ELSE LET v == Matches(st, ms[i], item[1], filter)
         IN  (IF v = None THEN <<>> ELSE << <<item[1], Blend(Unwrap(v), item[2])>> >>)
             \o MatchedOne(ms, i + 1, item, filter, st)

RECURSIVE Matched(_, _, _, _)
\* lines 169-179: flat_map over the items
Matched(ms, its, filter, st) ==
    IF its = <<>> THEN <<>>
    ELSE MatchedOne(ms, 1, Head(its), filter, st) \o Matched(ms, Tail(its), filter, st)

\* an insert whatever the score in the map
DedupeStepLastWins(map, el) ==
    [k \in DOMAIN map \cup {el[1]} |-> IF k = el[1] THEN el[2] ELSE map[k]]

\* a map that keeps the score it saw first
DedupeStepFirstWins(map, el) ==
    [k \in DOMAIN map \cup {el[1]} |-> IF k \in DOMAIN map THEN map[k] ELSE el[2]]

\* lines 184-193: one element against the map
DedupeStep(map, el) ==
    IF el[1] \in DOMAIN map
    THEN IF el[2] > map[el[1]] THEN [map EXCEPT ![el[1]] = el[2]] ELSE map
    ELSE [k \in DOMAIN map \cup {el[1]} |-> IF k = el[1] THEN el[2] ELSE map[k]]

RECURSIVE Dedupe(_, _)
\* lines 182-194: the loop over matched
Dedupe(map, matched) ==
    IF matched = <<>> THEN map
    ELSE Dedupe(DedupeStep(map, Head(matched)), Tail(matched))

\* lines 196-202: the map's pairs, sorted ascending by score
Deduped(ms, its, filter, st) ==
    LET dedupe_map == Dedupe(EmptyMap, Matched(ms, its, filter, st))
    IN  AscendingOrders({<<k, dedupe_map[k]>> : k \in DOMAIN dedupe_map})

\* lines 123-213
DirectoryMatches(filter, st) ==
    /\ Idle
    /\ LET changed == RetainChanged(frecency, {k \in Keys(frecency) : IsDir(k, dirs)})
       IN  /\ frecency' = Pruned(frecency, dirs)
           /\ dirty' = DirtyAfterPrune(dirty, changed)
           /\ mutated' = (mutated \/ changed)
    /\ pruned' = Keys(frecency) \ Keys(frecency')
    /\ \E its \in SortedItems(frecency') :
         \E deduped \in Deduped(Matchers, its, filter, st) :
            Returns("directory_matches", [filter |-> filter, strength |-> st],
                    FALSE, NoRet, deduped)
    /\ NotSaving
    /\ UNCHANGED <<phase, path, pid, savepc, files, dirs, savedStore, peer, lastRename>>

----------------------------------------------------------------------------
(* save_to_disk, one step per filesystem operation *)

\* save_to_disk returns the error e of the step that failed
SaveFails(step, e) ==
    /\ savepc' = "idle"
    /\ failedStep' = step
    /\ Returns("save_to_disk", NoArgs, FALSE, e, <<>>)

\* a save that never finds the engine clean
NeverClean(isDirty) == FALSE

\* line 71: nothing to save
Clean(isDirty) == ~isDirty

\* a save that clears the flag
DirtyCleared(isDirty) == FALSE

\* lines 70-99: save_to_disk takes &self: the flag is what it was
DirtyAfterSave(isDirty) == isDirty

\* lines 70-92: the checks, and File::create of the temporary file
SaveToDisk ==
    /\ Idle
    /\ NotPruning
    /\ oldFile' = FileAt(files, path)
    /\ IF Clean(dirty)
       THEN /\ Returns("save_to_disk", NoArgs, FALSE, Ok, <<>>)
            /\ failedStep' = "none"
            /\ UNCHANGED <<savepc, files>>
       ELSE IF pid = 0
       THEN SaveFails("getpid", PidError) /\ UNCHANGED files
       ELSE IF FileName(path) = None
       THEN SaveFails("file_name", FileNameError) /\ UNCHANGED files
       ELSE IF Parent(path) = None
       THEN SaveFails("parent", ParentError) /\ UNCHANGED files
       ELSE \E created \in BOOLEAN :
              IF created
              THEN LET tmpfile_path == TmpfilePath(path, pid)
                   IN  /\ files' = Created(files, tmpfile_path)
                       /\ savepc' = "serialize"
                       /\ failedStep' = "none"
                       /\ Returns("save_to_disk", NoArgs, FALSE, NoRet, <<>>)
              ELSE SaveFails("create", CreateError) /\ UNCHANGED files
    /\ UNCHANGED <<phase, path, pid, frecency, dirty, dirs, mutated, savedStore, peer,
                   lastRename>>

\* lines 94-96: the serializer writes the next token into the temporary file,
\* or the write fails
SaveSerialize ==
    /\ phase = "loaded"
    /\ savepc = "serialize"
    /\ LET tmpfile_path == TmpfilePath(path, pid)
       IN  \E written \in BOOLEAN :
             IF written
             THEN \E tok \in NextTokens(frecency, files[tmpfile_path]) :
                    /\ files' = [files EXCEPT ![tmpfile_path] = Append(@, tok)]
                    /\ savepc' = IF tok.t = "cap" THEN "rename" ELSE "serialize"
                    /\ Returns("save_to_disk", NoArgs, FALSE, NoRet, <<>>)
                    /\ UNCHANGED failedStep
             ELSE SaveFails("serialize", SerializeError) /\ UNCHANGED files
    /\ UNCHANGED <<phase, path, pid, frecency, dirty, dirs, mutated, oldFile, savedStore,
                   pruned, peer, lastRename>>

\* lines 97-98: fs::rename of the temporary file over the real path
SaveRename ==
    /\ phase = "loaded"
    /\ savepc = "rename"
    /\ LET tmpfile_path == TmpfilePath(path, pid)
       IN  \E renamed \in BOOLEAN :
             IF renamed
             THEN /\ files' = Renamed(files, tmpfile_path, path)
                  /\ peer' = Detached(peer, files, path)
                  /\ lastRename' = pid
                  /\ savepc' = "idle"
                  /\ dirty' = DirtyAfterSave(dirty)
                  /\ mutated' = FALSE
                  /\ savedStore' = frecency
                  /\ Returns("save_to_disk", NoArgs, FALSE, Ok, <<>>)
                  /\ UNCHANGED failedStep
             ELSE /\ \E e \in OsErrors : SaveFails("rename", RenameError(e))
                  /\ UNCHANGED <<files, dirty, mutated, savedStore, peer, lastRename>>
    /\ UNCHANGED <<phase, path, pid, frecency, dirs, oldFile, pruned>>

----------------------------------------------------------------------------
(* The second process runs the same code; its load is taken one system     *)
(* call at a time                                                          *)

\* a call of the second process; what its load read is remembered until then
PeerDoes(op) ==
    [peer EXCEPT !.op = op, !.read = NoFile, !.atOpen = NoFile, !.inode = <<>>]

PeerMainUnchanged ==
    UNCHANGED <<phase, path, pid, frecency, dirty, savepc, dirs, addRet, saveRet, items,
                args, pruned, lastOp, mutated, oldFile, savedStore, failedStep>>

\* lines 24-29: open(read, write, create)
PeerLoadOpen(mypid) ==
    /\ peer.phase = "unloaded"
    /\ IF IsDir(path, dirs)
       THEN /\ peer' = [peer EXCEPT !.phase = "panicked", !.pid = mypid, !.op = "load"]
            /\ UNCHANGED files
       ELSE /\ files' = IF path \in Files(files) THEN files
                         ELSE [f \in Files(files) \cup {path} |->
                                 IF f = path THEN <<>> ELSE files[f]]
            /\ peer' = [peer EXCEPT !.phase = "opened", !.pid = mypid, !.op = "load",
                                    !.handle = "linked",
                                    !.atOpen = Opened(files, path)]
    /\ UNCHANGED lastRename
    /\ PeerMainUnchanged

\* line 30: metadata() of the open file
PeerLoadMetadata ==
    /\ peer.phase = "opened"
    /\ peer' = [peer EXCEPT !.phase = "sized", !.len = Len(HandleBytes(peer, files, path))]
    /\ UNCHANGED <<files, lastRename>>
    /\ PeerMainUnchanged

\* lines 32-44: the snapshot is read through the handle and deserialized, or
\* the store is new; the handle is closed
PeerLoadDeserialize ==
    /\ peer.phase = "sized"
    /\ LET bytes == HandleBytes(peer, files, path)
           de == Deserialize(bytes)
           closed == [peer EXCEPT !.handle = "closed", !.len = 0, !.dirty = InitialDirty]
       IN  peer' = IF peer.len > 0
                   THEN IF de = None
                        THEN [closed EXCEPT !.phase = "panicked", !.read = bytes]
                        ELSE [closed EXCEPT !.phase = "loaded", !.read = bytes,
                                            !.frecency = Unwrap(de)]
                   ELSE [closed EXCEPT !.phase = "loaded", !.read = <<>>,
                                       !.frecency = FrecencyNew(Capacity)]
    /\ UNCHANGED <<files, lastRename>>
    /\ PeerMainUnchanged

PeerIdle == peer.phase = "loaded" /\ peer.savepc = "idle"

\* lines 47-50
PeerVisit(dir) ==
    /\ PeerIdle
    /\ CanVisit(peer.frecency, dir)
    /\ peer' = [PeerDoes("visit") EXCEPT !.frecency = FrecencyVisit(peer.frecency, dir),
                                         !.dirty = TRUE, !.failed = "none"]
    /\ UNCHANGED <<files, lastRename>>
    /\ PeerMainUnchanged

PeerSaveFails(step, e) ==
    [PeerDoes("save_to_disk") EXCEPT !.savepc = "idle", !.failed = step, !.saveRet = e]

\* lines 70-92
PeerSaveToDisk ==
    /\ PeerIdle
    /\ IF Clean(peer.dirty)
       THEN /\ peer' = [PeerDoes("save_to_disk") EXCEPT !.saveRet = Ok, !.failed = "none"]
            /\ UNCHANGED files
       ELSE IF peer.pid = 0
       THEN peer' = PeerSaveFails("getpid", PidError) /\ UNCHANGED files
       ELSE IF FileName(path) = None
       THEN peer' = PeerSaveFails("file_name", FileNameError) /\ UNCHANGED files
       ELSE IF Parent(path) = None
       THEN peer' = PeerSaveFails("parent", ParentError) /\ UNCHANGED files
       ELSE \E created \in BOOLEAN :
              IF created
              THEN /\ files' = Created(files, TmpfilePath(path, peer.pid))
                   /\ peer' = [PeerDoes("save_to_disk") EXCEPT !.savepc = "serialize",
                                   !.failed = "none", !.saveRet = NoRet]
              ELSE peer' = PeerSaveFails("create", CreateError) /\ UNCHANGED files
    /\ UNCHANGED lastRename
    /\ PeerMainUnchanged

\* lines 94-96
PeerSaveSerialize ==
    /\ peer.phase = "loaded"
    /\ peer.savepc = "serialize"
    /\ LET tmpfile_path == TmpfilePath(path, peer.pid)
       IN  \E written \in BOOLEAN :
             IF written
             THEN \E tok \in NextTokens(peer.frecency, files[tmpfile_path]) :
                    /\ files' = [files EXCEPT ![tmpfile_path] = Append(@, tok)]
                    /\ peer' = [peer EXCEPT !.savepc = IF tok.t = "cap" THEN "rename"
                                                       ELSE "serialize"]
             ELSE peer' = PeerSaveFails("serialize", SerializeError) /\ UNCHANGED files
    /\ UNCHANGED lastRename
    /\ PeerMainUnchanged

\* lines 97-98
PeerSaveRename ==
    /\ peer.phase = "loaded"
    /\ peer.savepc = "rename"
    /\ LET tmpfile_path == TmpfilePath(path, peer.pid)
       IN  \E renamed \in BOOLEAN :
             IF renamed
             THEN /\ files' = Renamed(files, tmpfile_path, path)
                  /\ lastRename' = peer.pid
                  /\ peer' = [peer EXCEPT !.savepc = "idle", !.saveRet = Ok,
                                          !.dirty = DirtyAfterSave(peer.dirty),
                                          !.saved = peer.frecency]
             ELSE /\ \E e \in OsErrors : peer' = PeerSaveFails("rename", RenameError(e))
                  /\ UNCHANGED <<files, lastRename>>
    /\ PeerMainUnchanged

----------------------------------------------------------------------------
(* The inputs *)

\* the process ids of the engine's process
Pids == {1}
VisitDirs == {DirA, DirAB}
Bases == {DirA}
Relatives == {<<"b">>, DirA}
EnvDirs == {DirA, DirAB}

Next ==
    \/ \E p \in Pids : Load(p)
    \/ Exit
    \/ \E d \in VisitDirs : Visit(d)
    \/ \E b \in Bases, r \in Relatives : MaybeAddRelativeTo(b, r)
    \/ ItemsWithFrecency
    \/ SaveToDisk
    \/ SaveSerialize
    \/ SaveRename
    \/ \E d \in EnvDirs : MkDir(d)
    \/ \E d \in EnvDirs : RmDir(d)

Spec == Init /\ [][Next]_vars

\* the inputs of the ranking
RankDirs == {DirA, DirUpperA, DirAB}
RankBases == {RootDir, DirA}
RankRelatives == {<<"a">>, <<"A">>, <<"b">>, <<BadByte>>, DirA}
Filters == {DirA, <<"a">>, <<"b">>, <<"z">>}

NextRank ==
    \/ \E p \in Pids : Load(p)
    \/ \E d \in RankDirs : Visit(d)
    \/ \E b \in RankBases, r \in RankRelatives : MaybeAddRelativeTo(b, r)
    \/ ItemsWithFrecency
    \/ \E f \in Filters, st \in StrengthTables : DirectoryMatches(f, st)
    \/ \E d \in AllDirs : MkDir(d)
    \/ \E d \in AllDirs : RmDir(d)

SpecRank == Init /\ [][NextRank]_vars

\* the queries and save_to_disk on one engine
QueryFilters == {<<"b">>}
\* every strategy as strong as the exact one
FullStrength == CHOOSE st \in StrengthTables : \A m \in DOMAIN st : st[m] = Unit

NextQuery ==
    \/ \E p \in Pids : Load(p)
    \/ Exit
    \/ \E d \in VisitDirs : Visit(d)
    \/ ItemsWithFrecency
    \/ \E f \in QueryFilters : DirectoryMatches(f, FullStrength)
    \/ SaveToDisk
    \/ SaveSerialize
    \/ SaveRename
    \/ \E d \in EnvDirs : MkDir(d)
    \/ \E d \in EnvDirs : RmDir(d)

SpecQuery == Init /\ [][NextQuery]_vars

\* two processes on one location
PeerPids == {2}
ConcDirs == {DirA}
PeerDirs == {DirAB}

NextConc ==
    \/ \E p \in Pids : Load(p)
    \/ \E d \in ConcDirs : Visit(d)
    \/ SaveToDisk
    \/ SaveSerialize
    \/ SaveRename
    \/ \E p \in PeerPids : PeerLoadOpen(p)
    \/ PeerLoadMetadata
    \/ PeerLoadDeserialize
    \/ \E d \in PeerDirs : PeerVisit(d)
    \/ PeerSaveToDisk
    \/ PeerSaveSerialize
    \/ PeerSaveRename

SpecConc == Init /\ [][NextConc]_vars

----------------------------------------------------------------------------
(* Properties *)

RealFile == FileAt(files, path)
IsSnapshotOf(bytes, s) == Deserialize(bytes) = Some(s)
OnDisk(p) == p \in dirs \cup {RootDir}
Queries == {"items_with_frecency", "directory_matches"}
\* the temporary sibling by its name: .<file-name>.<pid> beside the database
Sibling == <<Sep, ".">> \o SubSeq(path, 2, Len(path)) \o <<".", ToString(pid)>>

\* C1: during and right after save_to_disk, whatever step failed, the
\* database file holds what it held when the call began or a complete
\* snapshot of the store; the call writes the temporary sibling only, and
\* the database file changes in the rename step alone, to the complete
\* snapshot the sibling holds.
AtomicPersistence ==
    /\ [](lastOp = "save_to_disk" =>
            (RealFile = oldFile \/ IsSnapshotOf(RealFile, frecency)))
    /\ [][lastOp' = "save_to_disk" =>
            /\ \A f \in Files(files) \cup Files(files') :
                 FileAt(files', f) # FileAt(files, f) =>
                    (f = Sibling \/ (f = path /\ savepc = "rename"))
            /\ RealFile' # RealFile =>
                 /\ savepc = "rename"
                 /\ RealFile' = FileAt(files, Sibling)
                 /\ IsSnapshotOf(RealFile', frecency)]_vars

\* a save in progress over an older snapshot: the sibling is partly written
\* and the database file still holds the older, different snapshot
AtomicPersistenceWitness ==
    /\ savepc = "serialize"
    /\ Len(FileAt(files, Sibling)) >= 2
    /\ RealFile = oldFile
    /\ IsComplete(RealFile)
    /\ ~IsSnapshotOf(RealFile, frecency)

ScoreOf(k) == items[CHOOSE i \in DOMAIN items : items[i][1] = k][2]

\* C3: when a stored existing path equals the filter, no other path of the
\* result of directory_matches has a strictly greater score.
ExactMatchDominance ==
    (lastOp = "directory_matches" /\ args.filter \in Keys(frecency)) =>
        /\ \E i \in DOMAIN items : items[i][1] = args.filter
        /\ \A i \in DOMAIN items : items[i][2] <= ScoreOf(args.filter)

\* the strategies that match path k against the filter of the last call
Hitting(k) == {Matchers[i] : i \in {j \in DOMAIN Matchers : Hit(Matchers[j], k, args.filter)}}

\* the blended scores of path k, one for every strategy that matches it
Showings(k) ==
    {(IF m = "em" THEN Unit ELSE args.strength[m]) * MatchWeight
        + NormalizedFrecency(frecency)[k] * FrecWeight : m \in Hitting(k)}

\* C4: in the result of directory_matches every path appears at most once,
\* with the maximum over the strategies that match it of
\* strength * 0.8 + normalized frecency * 0.2.
DedupByMaximum ==
    lastOp = "directory_matches" =>
        /\ \A i, j \in DOMAIN items : items[i][1] = items[j][1] => i = j
        /\ \A i \in DOMAIN items :
             /\ Showings(items[i][1]) # {}
             /\ items[i][2] = Max(Showings(items[i][1]))

\* a returned path that several strategies matched with different scores
DedupByMaximumWitness ==
    /\ lastOp = "directory_matches"
    /\ \E i \in DOMAIN items : Cardinality(Showings(items[i][1])) >= 2

\* the order of the normalized frecencies of the paths of s that exist
OrderOverExisting(s) ==
    LET nf == NormalizedFrecency(s)
        live == {k \in Keys(s) : OnDisk(k)}
    IN  {<<k, l>> \in live \X live : nf[k] <= nf[l]}

\* C5: a load that follows a successful save_to_disk gives the store that
\* was saved: the same entries, and the same order of normalized frecencies
\* over the paths that still exist.
RoundTrip ==
    (lastOp = "load" /\ phase = "loaded" /\ savedStore # NoStore) =>
        /\ frecency = savedStore
        /\ OrderOverExisting(frecency) = OrderOverExisting(savedStore)

\* a load of a saved store of two entries with different frecencies, both
\* still on disk
RoundTripWitness ==
    /\ lastOp = "load"
    /\ phase = "loaded"
    /\ savedStore # NoStore
    /\ \E k, l \in Keys(frecency) :
         /\ frecency.frecency[k] < frecency.frecency[l]
         /\ OnDisk(k)
         /\ OnDisk(l)

\* C6: dirty is true exactly when a visit, an insert or a prune that removed
\* an entry happened since the last successful save_to_disk, or since load.
DirtyIffMutated == phase = "loaded" => (dirty <=> mutated)

\* C7: save_to_disk never clears the dirty flag: while the engine lives,
\* dirty stays true once true, and a save_to_disk on an engine that is dirty
\* with nothing mutated since the last successful save goes on to create the
\* temporary file again.
DirtyNeverCleared ==
    [][/\ (phase = "loaded" /\ phase' = "loaded" /\ dirty) => dirty'
       /\ (Idle /\ dirty /\ ~mutated /\ lastOp' = "save_to_disk") =>
             \/ failedStep' = "create"
             \/ (savepc' = "serialize" /\ FileAt(files', Sibling) = <<>>)]_vars

\* the second save, with nothing mutated since the first, has serialized the
\* store again and is about to rename
ResaveWitness ==
    /\ phase = "loaded"
    /\ dirty
    /\ ~mutated
    /\ savepc = "rename"
    /\ IsSnapshotOf(FileAt(files, Sibling), frecency)

\* C8: save_to_disk on a clean engine returns Ok and changes neither the
\* files nor the store nor the flag.
CleanSaveIsNoOp ==
    [][(Idle /\ ~dirty /\ lastOp' = "save_to_disk") =>
          /\ saveRet' = Ok
          /\ files' = files
          /\ frecency' = frecency
          /\ dirty' = dirty
          /\ savepc' = "idle"]_vars

\* a save on an engine that was loaded from a snapshot and not touched
CleanSaveWitness ==
    /\ lastOp = "save_to_disk"
    /\ ~dirty
    /\ saveRet = Ok
    /\ Keys(frecency) # {}
    /\ Sibling \notin Files(files)

\* C9: maybe_add_relative_to returns true exactly when the joined path is a
\* directory on disk with a representable string form, and then the path is
\* stored and dirty is true; otherwise it returns false and leaves the store
\* and the dirty flag as they were.
MaybeAddContract ==
    [][lastOp' = "maybe_add_relative_to" =>
         LET joined == Join(args'.base, args'.relative)
         IN  IF OnDisk(joined) /\ ToStr(joined) # None
             THEN addRet' /\ joined \in Keys(frecency') /\ dirty'
             ELSE ~addRet' /\ frecency' = frecency /\ dirty' = dirty]_vars

\* a directory whose name is not valid Unicode was refused on a clean,
\* non-empty store
MaybeAddWitness ==
    /\ lastOp = "maybe_add_relative_to"
    /\ OnDisk(Join(args.base, args.relative))
    /\ ToStr(Join(args.base, args.relative)) = None
    /\ ~addRet

\* the errors each failing step of save_to_disk returns
ErrorsOf(step) ==
    CASE step = "getpid" -> {PidError}
      [] step = "file_name" -> {FileNameError}
      [] step = "parent" -> {ParentError}
      [] step = "create" -> {CreateError}
      [] step = "serialize" -> {SerializeError}
      [] step = "rename" -> {RenameError(e) : e \in OsErrors}
FailingSteps == {"getpid", "file_name", "parent", "create", "serialize", "rename"}

\* C10: a save_to_disk that fails returns an error value, the engine stays
\* usable, and the error tells the step: an error that one step returns is
\* returned only when that step failed.
SaveErrorsDistinct ==
    lastOp = "save_to_disk" =>
        /\ phase = "loaded"
        /\ (failedStep # "none" => saveRet[1] = "Err")
        /\ \A step \in FailingSteps : saveRet \in ErrorsOf(step) => failedStep = step

\* the serialization failed and its own error came back
SaveErrorsWitness ==
    /\ lastOp = "save_to_disk"
    /\ failedStep = "serialize"
    /\ saveRet = SerializeError

\* the temporary sibling of the second process
PeerSibling == <<Sep, ".">> \o SubSeq(path, 2, Len(path)) \o <<".", ToString(peer.pid)>>

\* bytes is what a serialization of s has written so far
PrefixOfSnapshot(bytes, s) ==
    \A i \in 1..Len(bytes) : bytes[i] \in NextTokens(s, SubSeq(bytes, 1, i - 1))

\* C11: two processes with different process ids save to the same location
\* with their steps interleaved: their temporary files are different files,
\* each holding only what its own process serialized; the database file is
\* the complete snapshot of the process whose rename ran last; and a
\* save_to_disk none of whose own steps failed returns Ok, also to the
\* process whose saved state was replaced.
ConcurrentWriters ==
    /\ (phase = "loaded" /\ peer.phase = "loaded") => Sibling # PeerSibling
    /\ savepc # "idle" => PrefixOfSnapshot(FileAt(files, Sibling), frecency)
    /\ peer.savepc # "idle" => PrefixOfSnapshot(FileAt(files, PeerSibling), peer.frecency)
    /\ (lastRename # 0 /\ lastRename = pid) => IsSnapshotOf(RealFile, savedStore)
    /\ (lastRename # 0 /\ lastRename = peer.pid) => IsSnapshotOf(RealFile, peer.saved)
    /\ (lastOp = "save_to_disk" /\ savepc = "idle" /\ failedStep = "none") => saveRet = Ok
    /\ (peer.op = "save_to_disk" /\ peer.savepc = "idle" /\ peer.failed = "none") =>
          peer.saveRet = Ok

\* the second process renamed between the entry and the rename of the
\* engine's save_to_disk: the engine's rename ran last, the database file is
\* its snapshot, the second process's different saved state is gone, and
\* both calls returned Ok
ConcurrentWritersWitness ==
    /\ lastOp = "save_to_disk"
    /\ savepc = "idle"
    /\ saveRet = Ok
    /\ lastRename = pid
    /\ peer.op = "save_to_disk"
    /\ peer.saveRet = Ok
    /\ peer.saved # NoStore
    /\ ~IsSnapshotOf(oldFile, peer.saved)
    /\ ~IsSnapshotOf(RealFile, peer.saved)
    /\ IsSnapshotOf(RealFile, savedStore)

\* C12: the list directory_matches returns is ascending by blended score:
\* of two adjacent elements the earlier one's score is at most the later
\* one's, and no element's score is greater than the last element's.
AscendingByScore ==
    lastOp = "directory_matches" =>
        /\ \A i \in 1..(Len(items) - 1) : items[i][2] <= items[i + 1][2]
        /\ \A i \in DOMAIN items : items[i][2] <= items[Len(items)][2]

\* a ranking of three paths, the last one scoring strictly more than the first
AscendingByScoreWitness ==
    /\ lastOp = "directory_matches"
    /\ Len(items) = 3
    /\ items[1][2] < items[3][2]

\* orders of the strategy list: the reversed list, its rotations, and the
\* list with two neighbouring strategies exchanged
Reversed(ms) == [i \in 1..Len(ms) |-> ms[Len(ms) + 1 - i]]
Rotated(ms, n) == [i \in 1..Len(ms) |-> ms[((i - 1 + n) % Len(ms)) + 1]]
Exchanged(ms, a, b) ==
    [i \in 1..Len(ms) |-> IF i = a THEN ms[b] ELSE IF i = b THEN ms[a] ELSE ms[i]]
MatcherOrders ==
    {Reversed(Matchers)}
        \cup {Rotated(Matchers, n) : n \in 1..(Len(Matchers) - 1)}
        \cup {Exchanged(Matchers, a, a + 1) : a \in 1..(Len(Matchers) - 1)}

PairsOf(sq) == {sq[i] : i \in DOMAIN sq}

\* C13: with the strategies tried in another order (reversed, rotated, two
\* neighbours exchanged), directory_matches gives the same set of
\* (path, blended score) pairs for the same store, filter and strengths.
StrategyOrderIndependence ==
    lastOp = "directory_matches" =>
        \A ms \in MatcherOrders :
            \A its \in SortedItems(frecency) :
                \A sq \in Deduped(ms, its, args.filter, args.strength) :
                    PairsOf(sq) = PairsOf(items)

\* a returned path whose first matching strategy of the list does not give
\* its best score, and another whose first matching strategy does
StrategyOrderWitness ==
    /\ lastOp = "directory_matches"
    /\ \E i, j \in DOMAIN items :
         LET first(k) == Matchers[CHOOSE n \in DOMAIN Matchers :
                                    /\ Matchers[n] \in Hitting(k)
                                    /\ \A l \in 1..(n - 1) : Matchers[l] \notin Hitting(k)]
             scoreBy(k, m) == Blend(IF m = "em" THEN Unit ELSE args.strength[m],
                                    NormalizedFrecency(frecency)[k])
         IN  /\ scoreBy(items[i][1], first(items[i][1])) < items[i][2]
             /\ scoreBy(items[j][1], first(items[j][1])) = items[j][2]
             /\ Cardinality(Showings(items[j][1])) >= 2

\* C14: when save_to_disk has returned Ok on a dirty engine, the temporary
\* file .<file-name>.<pid> is gone from the directory and the database
\* file is the complete snapshot of the store.
NoTempFileLeft ==
    (lastOp = "save_to_disk" /\ savepc = "idle" /\ saveRet = Ok /\ dirty) =>
        /\ Sibling \notin Files(files)
        /\ IsSnapshotOf(RealFile, frecency)

\* a successful save of a store of two entries over an older snapshot
NoTempFileLeftWitness ==
    /\ lastOp = "save_to_disk"
    /\ savepc = "idle"
    /\ saveRet = Ok
    /\ dirty
    /\ Cardinality(Keys(frecency)) = 2
    /\ IsComplete(oldFile)
    /\ oldFile # RealFile

\* C15: a load of an absent or empty file gives an empty store of capacity
\* 1000, a load of a snapshot gives the store the snapshot holds; dirty is
\* false either way, and a save_to_disk that is the next call returns Ok and
\* leaves every file as it is.
InitialStateAfterLoad ==
    [][/\ (lastOp' = "load" /\ phase' = "loaded") =>
             /\ ~dirty'
             /\ IF FileAt(files, path) \in {NoFile, <<>>}
                THEN /\ frecency' = [frecency |-> EmptyMap, max_size |-> 1000]
                     /\ FileAt(files', path) = <<>>
                ELSE /\ Deserialize(FileAt(files, path)) = Some(frecency')
                     /\ files' = files
       /\ (lastOp = "load" /\ phase = "loaded" /\ lastOp' = "save_to_disk") =>
             /\ saveRet' = Ok
             /\ savepc' = "idle"
             /\ files' = files]_vars

\* save_to_disk was called right after the load of a snapshot of two entries
InitialStateWitness ==
    /\ lastOp = "save_to_disk"
    /\ saveRet = Ok
    /\ ~dirty
    /\ ~mutated
    /\ frecency.max_size = 1000
    /\ Cardinality(Keys(frecency)) = 2
    /\ IsSnapshotOf(RealFile, frecency)

\* the paths of a returned list
PathsOf(sq) == {sq[i][1] : i \in DOMAIN sq}

\* C16: the paths directory_matches returns are exactly the stored paths
\* left after pruning that at least one of the eight strategies matches
\* against the filter; when no strategy matches any of them the result is
\* empty.
Membership ==
    lastOp = "directory_matches" =>
        /\ PathsOf(items) = {k \in Keys(frecency) : Hitting(k) # {}}
        /\ ((\A k \in Keys(frecency) : Hitting(k) = {}) => items = <<>>)

\* of three stored paths the filter matches one, whose score is below 0.2,
\* and leaves out one with a greater frecency
MembershipWitness ==
    /\ lastOp = "directory_matches"
    /\ Cardinality(Keys(frecency)) = 3
    /\ Len(items) = 1
    /\ items[1][2] < Unit * FrecWeight
    /\ \E k \in Keys(frecency) \ PathsOf(items) :
          frecency.frecency[k] > frecency.frecency[items[1][1]]

\* C17: a load of one process that runs, one system call at a time, beside
\* the save_to_disk steps of another process never fails on a partly
\* written snapshot: it reads nothing (the file was empty) or a complete
\* snapshot, the one the database file held when the load opened it or the
\* one it holds now, and the store is what that snapshot holds.
LoadSeesWholeSnapshot ==
    /\ peer.phase = "panicked" => IsDir(path, dirs)
    /\ (peer.op = "load" /\ peer.phase = "loaded") =>
          /\ peer.read \in {<<>>, peer.atOpen, RealFile}
          /\ IF peer.read = <<>>
             THEN peer.frecency = FrecencyNew(Capacity)
             ELSE IsSnapshotOf(peer.read, peer.frecency)

\* the other process renamed its new snapshot over the database file
\* between the open and the read of the load: the load read the complete
\* older snapshot, and the file now holds a different one
LoadSeesWholeSnapshotWitness ==
    /\ peer.op = "load"
    /\ peer.phase = "loaded"
    /\ IsComplete(peer.inode)
    /\ peer.read = peer.inode
    /\ IsSnapshotOf(peer.read, peer.frecency)
    /\ RealFile # peer.read
    /\ IsSnapshotOf(RealFile, savedStore)

\* C18: when every stored path is a directory on disk, items_with_frecency
\* and directory_matches leave the store and the dirty flag as they were;
\* and a save_to_disk that follows a query on an engine still clean returns
\* Ok and leaves every file as it is.
QueriesPruningNothing ==
    [][/\ (lastOp' \in Queries /\ \A k \in Keys(frecency) : OnDisk(k)) =>
             /\ frecency' = frecency
             /\ dirty' = dirty
       /\ (lastOp \in Queries /\ ~dirty /\ lastOp' = "save_to_disk") =>
             /\ saveRet' = Ok
             /\ savepc' = "idle"
             /\ files' = files]_vars

\* a ranking over a loaded store of two existing directories left the
\* engine clean
QueriesPruningNothingWitness ==
    /\ lastOp = "directory_matches"
    /\ ~dirty
    /\ pruned = {}
    /\ Cardinality(Keys(frecency)) = 2
    /\ items # <<>>

\* C19: when save_to_disk fails at the serialization or at the rename it
\* returns an error, the database file, the store and the dirty flag are
\* what they were, and the temporary file stays in the directory; the next
\* save_to_disk starts again from the creation of that same temporary
\* file, which is empty after it.
FailedSaveLeavesResidue ==
    [][/\ (savepc \in {"serialize", "rename"} /\ savepc' = "idle" /\ failedStep' # "none") =>
             /\ failedStep' = savepc
             /\ saveRet'[1] = "Err"
             /\ RealFile' = RealFile
             /\ RealFile' = oldFile'
             /\ frecency' = frecency
             /\ dirty' = dirty
             /\ Sibling \in Files(files')
             /\ FileAt(files', Sibling) = FileAt(files, Sibling)
       /\ (Idle /\ failedStep \in {"serialize", "rename"} /\ lastOp' = "save_to_disk") =>
             \/ failedStep' = "create" /\ files' = files
             \/ /\ savepc' = "serialize"
                /\ FileAt(files', Sibling) = <<>>
                /\ \A f \in Files(files) \ {Sibling} : FileAt(files', f) = FileAt(files, f)]_vars

\* the rename failed: the complete new snapshot is left in the temporary
\* file beside the unchanged, different database file
FailedSaveWitness ==
    /\ lastOp = "save_to_disk"
    /\ failedStep = "rename"
    /\ saveRet[1] = "Err"
    /\ dirty
    /\ IsSnapshotOf(FileAt(files, Sibling), frecency)
    /\ RealFile = oldFile
    /\ IsComplete(RealFile)
    /\ RealFile # FileAt(files, Sibling)

====
